---- MODULE Spec2Model ----
(***************************************************************************)
(* A model of SceneManager (Source/SceneManager.cpp): the texture registry *)
(* (m_textureIDs, m_loadedTextures), the material registry, the OpenGL     *)
(* texture state the registry drives (generated names, active unit, unit   *)
(* bindings), the shader uniforms the helpers push, and the fixed draw     *)
(* sequence of RenderScene.                                                *)
(*                                                                         *)
(* Floats are fixed-point integers in thousandths (1.7f is 1700).          *)
(***************************************************************************)
EXTENDS Integers, Sequences, FiniteSets, TLC

\* ---------------------------------------------------------------- bounds
\* calls on the scene manager in one behaviour
MaxCalls == 4
\* memory cells the model keeps past the end of m_textureIDs: no call is made
\* that would write past them
MaxOverrun == 6
\* RenderScene calls counted in one behaviour
MaxRenders == 2
\* SetTransformations calls in one behaviour of the transform composer
MaxComposeCalls == 1
\* records in a material registry the material calls start from
MaxMaterials == 2

\* ------------------------------------------------------------- constants
\* "There are up to 16 slots": the ceiling of texture units and of the
\* m_textureIDs array that holds one record per unit.
MaxTextureSlots == 16

NULL == "NULL"

\* the textures PrepareScene loads, in order: <<filename, tag>>
SceneTextures ==
  << <<"textures/wood.jpg", "wood">>,
     <<"textures/stone.jpg", "stone">>,
     <<"textures/ceramic.jpg", "ceramic">>,
     <<"textures/table.jpg", "table">>,
     <<"textures/bread1.jpg", "bread1">>,
     <<"textures/bread2.jpg", "bread2">>,
     <<"textures/basket.jpg", "basket">> >>

ScenePaths == {SceneTextures[i][1] : i \in 1..Len(SceneTextures)}
SceneTags == {SceneTextures[i][2] : i \in 1..Len(SceneTextures)}

\* inputs of the direct CreateGLTexture calls: a scene texture again, a new
\* tag from an image of four channels, a new tag from an image of one channel
LoadInputs ==
  { <<"textures/wood.jpg", "wood">>,
    <<"textures/marble.png", "marble">>,
    <<"textures/gray.png", "gray">> }

Paths == ScenePaths \cup {in[1] : in \in LoadInputs}
Tags == SceneTags \cup {in[2] : in \in LoadInputs} \cup {"never", ""}

\* The image files on disk, as stbi_load sees them: the channel count of the
\* decoded image, 0 when the file cannot be decoded (stbi_load returns NULL).
IntactFiles ==
  [p \in Paths |->
     CASE p = "textures/marble.png" -> 4
       [] p = "textures/gray.png" -> 1
       [] OTHER -> 3]

FileSystems ==
  { IntactFiles,
    [IntactFiles EXCEPT !["textures/wood.jpg"] = 0],
    [IntactFiles EXCEPT !["textures/basket.jpg"] = 1] }

\* the array and the cells past it
MemSlots == MaxTextureSlots + MaxOverrun

EmptyRecord == [tag |-> "", ID |-> 0]

\* What a cell past the end of the array may read back as after an
\* out-of-bounds write, other than the record written: the memory belongs to
\* another member, which may zero it.
Garbage == {EmptyRecord}

VARIABLES
  files,             \* the image files on disk
  m_pShaderManager,  \* NULL or the shader manager given to the constructor
  m_loadedTextures,  \* number of registered textures
  m_textureIDs,      \* [0..MemSlots-1 -> record]: the array, then the cells past it
  m_objectMaterials, \* sequence of material records
  m_basicMeshes,     \* the meshes m_basicMeshes has loaded
  glGenCount,        \* texture names glGenTextures has returned: 1..glGenCount
  glDeleted,         \* names passed to glDeleteTextures
  activeTexture,     \* glActiveTexture's unit
  texUnit,           \* [0..MaxTextureSlots-1 -> name]: GL_TEXTURE_2D binding of each unit
  imageBuffers,      \* decode buffers stbi_load returned and nobody freed
  crashed,           \* the process ended in a memory fault
  uniforms,          \* the shader program's uniforms, by name
  drawLog,           \* the draw calls of the last call that drew, with the uniforms at each
  lastCall,          \* the last call made on the scene manager, with its result
  loadedOK,          \* history: tags of the CreateGLTexture calls that returned true
  lastHelper,        \* history: which of SetShaderColor, SetShaderTexture ran last
  firstFrame,        \* history: the draw calls of the first RenderScene
  frames,            \* history: how many RenderScene calls were made, up to MaxRenders
  calls              \* history: how many calls were made

vars == << files, m_pShaderManager, m_loadedTextures, m_textureIDs, m_objectMaterials,
           m_basicMeshes, glGenCount, glDeleted, activeTexture, texUnit, imageBuffers,
           crashed, uniforms, drawLog, lastCall, loadedOK, lastHelper, firstFrame,
           frames, calls >>

texVars == << m_loadedTextures, m_textureIDs, glGenCount, activeTexture, texUnit,
              imageBuffers, crashed >>

\* ------------------------------------------------- the texture state
\* The members and the OpenGL state the texture methods read and write, as
\* one record, so that PrepareScene can chain the calls it makes.
Tex ==
  [ m_loadedTextures |-> m_loadedTextures,
    m_textureIDs |-> m_textureIDs,
    glGenCount |-> glGenCount,
    activeTexture |-> activeTexture,
    texUnit |-> texUnit,
    imageBuffers |-> imageBuffers,
    crashed |-> crashed ]

\* the largest int
IntMax == 2147483647
\* GLuint read as int (FindTextureID returns int): wraps past IntMax
ToInt(u) == IF u > IntMax THEN (u - IntMax) - IntMax - 2 ELSE u

\* glBindTexture(GL_TEXTURE_2D, id): binds on the active unit
glBindTexture(t, id) == [t EXCEPT !.texUnit[t.activeTexture] = id]

\* glActiveTexture(GL_TEXTURE0 + i): GL_INVALID_ENUM past the last unit, and
\* the active unit stays what it was
glActiveTexture(t, i) ==
  IF i < MaxTextureSlots THEN [t EXCEPT !.activeTexture = i] ELSE t

\* m_textureIDs[m_loadedTextures] = {tag, ID}; m_loadedTextures++
\* Inside the array the write is what it says. Past the array it is undefined:
\* the cell may keep the record, may read back as something else, or the
\* process may fault.
Register(t, id, tag) ==
  LET i == t.m_loadedTextures
      written == [t EXCEPT !.m_textureIDs[i] = [tag |-> tag, ID |-> id],
                           !.m_loadedTextures = i + 1]
  IN IF i < MaxTextureSlots
       THEN {written}
       ELSE {written}
            \cup {[written EXCEPT !.m_textureIDs[i] = g] : g \in Garbage}
            \cup {[t EXCEPT !.crashed = TRUE]}

\* a CreateGLTexture that registers an image whatever its channel count
CreateGLTextureAnyChannels(t, fs, filename, tag) ==
  LET textureID == t.glGenCount + 1
      bound == glBindTexture([t EXCEPT !.glGenCount = textureID], textureID)
  IN IF fs[filename] = 0 THEN {[tex |-> t, ret |-> FALSE]}
     ELSE {[tex |-> r, ret |-> ~r.crashed] :
             r \in Register(glBindTexture(bound, 0), textureID, tag)}

\* CreateGLTexture(filename, tag): the set of outcomes, each the texture
\* state after the call and the value returned.
CreateGLTexture(t, fs, filename, tag) ==
  LET colorChannels == fs[filename]
      \* stbi_load returned a buffer; glGenTextures; glBindTexture
      textureID == t.glGenCount + 1
      bound == glBindTexture([t EXCEPT !.glGenCount = textureID,
                                       !.imageBuffers = @ + 1], textureID)
      \* glGenerateMipmap; stbi_image_free; glBindTexture(GL_TEXTURE_2D, 0)
      freed == glBindTexture([bound EXCEPT !.imageBuffers = @ - 1], 0)
  IN IF colorChannels = 0
       THEN {[tex |-> t, ret |-> FALSE]}
       ELSE IF colorChannels \notin {3, 4}
         THEN {[tex |-> bound, ret |-> FALSE]}
         ELSE {[tex |-> r, ret |-> ~r.crashed] : r \in Register(freed, textureID, tag)}

\* BindGLTextures(): for i < m_loadedTextures, unit i gets m_textureIDs[i].ID
RECURSIVE BindFrom(_, _)
BindFrom(t, i) ==
  IF i >= t.m_loadedTextures THEN t
  ELSE BindFrom(glBindTexture(glActiveTexture(t, i), t.m_textureIDs[i].ID), i + 1)

BindGLTextures(t) == BindFrom(t, 0)

\* DestroyGLTextures(): glGenTextures(1, &m_textureIDs[i].ID) for each record
RECURSIVE DestroyFrom(_, _)
DestroyFrom(t, i) ==
  IF i >= t.m_loadedTextures THEN t
  ELSE DestroyFrom([t EXCEPT !.glGenCount = @ + 1,
                             !.m_textureIDs[i].ID = t.glGenCount + 1], i + 1)

\* The writes past the array are undefined: they land, or the process faults.
DestroyGLTextures(t) ==
  {DestroyFrom(t, 0)}
  \cup (IF t.m_loadedTextures > MaxTextureSlots THEN {[t EXCEPT !.crashed = TRUE]} ELSE {})

\* FindTextureID(tag): the while loop, from index
RECURSIVE FindIDFrom(_, _, _)
FindIDFrom(t, tag, index) ==
  IF index >= t.m_loadedTextures THEN -1
  ELSE IF t.m_textureIDs[index].tag = tag THEN ToInt(t.m_textureIDs[index].ID)
  ELSE FindIDFrom(t, tag, index + 1)

FindTextureID(t, tag) == FindIDFrom(t, tag, 0)

\* FindTextureSlot(tag)
RECURSIVE FindSlotFrom(_, _, _)
FindSlotFrom(t, tag, index) ==
  IF index >= t.m_loadedTextures THEN -1
  ELSE IF t.m_textureIDs[index].tag = tag THEN index
  ELSE FindSlotFrom(t, tag, index + 1)

FindTextureSlot(t, tag) == FindSlotFrom(t, tag, 0)

\* the CreateGLTexture calls of PrepareScene, from the k-th on, then
\* BindGLTextures: the set of outcomes, each the texture state it ends in and
\* the tags whose CreateGLTexture returned true
RECURSIVE PrepareFrom(_, _, _, _)
PrepareFrom(t, fs, k, ok) ==
  IF t.crashed THEN {[tex |-> t, ok |-> ok]}
  ELSE IF k > Len(SceneTextures) THEN {[tex |-> BindGLTextures(t), ok |-> ok]}
  ELSE UNION { PrepareFrom(r.tex, fs, k + 1,
                           IF r.ret THEN ok \cup {SceneTextures[k][2]} ELSE ok) :
               r \in CreateGLTexture(t, fs, SceneTextures[k][1], SceneTextures[k][2]) }

\* ------------------------------------------------------ fixed point, glm
\* one, in thousandths
Unit == 1000

Vec3(x, y, z) == <<x, y, z>>

\* cos and sin of glm::radians(degrees), in thousandths, for the angles used
CosAbs(d) ==
  CASE d = 0 -> 1000 [] d = 20 -> 940 [] d = 25 -> 906 [] d = 50 -> 643
    [] d = 62 -> 469 [] d = 90 -> 0 [] d = 180 -> -1000 [] d = 270 -> 0
SinAbs(d) ==
  CASE d = 0 -> 0 [] d = 20 -> 342 [] d = 25 -> 423 [] d = 50 -> 766
    [] d = 62 -> 883 [] d = 90 -> 1000 [] d = 180 -> 0 [] d = 270 -> -1000
Cos(d) == IF d < 0 THEN CosAbs(-d) ELSE CosAbs(d)
Sin(d) == IF d < 0 THEN -SinAbs(-d) ELSE SinAbs(d)

\* a product of two fixed-point numbers, rounded
FMul(a, b) == (a * b + Unit \div 2) \div Unit

\* glm::mat4 * glm::mat4, as rows of a mathematical matrix: (a * b) v = a (b v)
MatEntry(a, b, i, j) ==
  FMul(a[i][1], b[1][j]) + FMul(a[i][2], b[2][j])
  + FMul(a[i][3], b[3][j]) + FMul(a[i][4], b[4][j])
MatRow(a, b, i) ==
  << MatEntry(a, b, i, 1), MatEntry(a, b, i, 2), MatEntry(a, b, i, 3), MatEntry(a, b, i, 4) >>
MatMul(a, b) ==
  << MatRow(a, b, 1), MatRow(a, b, 2), MatRow(a, b, 3), MatRow(a, b, 4) >>

\* glm::mat4 * point (x, y, z, 1), the first three coordinates
MatApplyRow(m, p, i) ==
  FMul(m[i][1], p[1]) + FMul(m[i][2], p[2]) + FMul(m[i][3], p[3]) + m[i][4]
MatApply(m, p) ==
  << MatApplyRow(m, p, 1), MatApplyRow(m, p, 2), MatApplyRow(m, p, 3) >>

ZeroMat ==
  << <<0, 0, 0, 0>>, <<0, 0, 0, 0>>, <<0, 0, 0, 0>>, <<0, 0, 0, 0>> >>

glmScale(v) ==
  << <<v[1], 0, 0, 0>>, <<0, v[2], 0, 0>>, <<0, 0, v[3], 0>>, <<0, 0, 0, Unit>> >>
glmTranslate(v) ==
  << <<Unit, 0, 0, v[1]>>, <<0, Unit, 0, v[2]>>, <<0, 0, Unit, v[3]>>, <<0, 0, 0, Unit>> >>
\* glm::rotate(glm::radians(d), axis) for the three unit axes
glmRotateX(d) ==
  << <<Unit, 0, 0, 0>>, <<0, Cos(d), -Sin(d), 0>>, <<0, Sin(d), Cos(d), 0>>, <<0, 0, 0, Unit>> >>
glmRotateY(d) ==
  << <<Cos(d), 0, Sin(d), 0>>, <<0, Unit, 0, 0>>, <<-Sin(d), 0, Cos(d), 0>>, <<0, 0, 0, Unit>> >>
glmRotateZ(d) ==
  << <<Cos(d), -Sin(d), 0, 0>>, <<Sin(d), Cos(d), 0, 0>>, <<0, 0, Unit, 0>>, <<0, 0, 0, Unit>> >>

\* ------------------------------------------------------- shader uniforms
g_ModelName == "model"
g_ColorValueName == "objectColor"
g_TextureValueName == "objectTexture"
g_UseTextureName == "bUseTexture"
g_UseLightingName == "bUseLighting"

\* "pointLights[" + std::to_string(i) + "].bActive"
PointLightActiveName(i) == "pointLights[" \o ToString(i) \o "].bActive"

IntUniforms ==
  { g_UseTextureName, g_UseLightingName, g_TextureValueName,
    "directionalLight.bActive", "pointLights[0].bActive", "spotLight.bActive" }
  \cup {PointLightActiveName(i) : i \in 1..4}
Vec3Uniforms ==
  { "material.diffuseColor", "material.specularColor",
    "directionalLight.direction", "directionalLight.ambient",
    "directionalLight.diffuse", "directionalLight.specular",
    "pointLights[0].position", "pointLights[0].ambient",
    "pointLights[0].diffuse", "pointLights[0].specular" }
UniformNames ==
  IntUniforms \cup Vec3Uniforms
  \cup {g_ModelName, g_ColorValueName, "UVscale", "material.shininess"}

\* a linked program's uniforms start at zero
InitialUniforms ==
  [n \in UniformNames |->
     CASE n \in IntUniforms -> 0
       [] n \in Vec3Uniforms -> <<0, 0, 0>>
       [] n = g_ModelName -> ZeroMat
       [] n = g_ColorValueName -> <<0, 0, 0, 0>>
       [] n = "UVscale" -> <<0, 0>>
       [] n = "material.shininess" -> 0]

\* ShaderManager::setIntValue / setVec3Value / ...: one uniform written
setValue(u, name, value) == [u EXCEPT ![name] = value]
\* bool passed as int
BoolToInt(b) == IF b THEN 1 ELSE 0

\* the composition with the rotations in the opposite order: X outermost
ModelViewXYZ(scaleXYZ, XrotationDegrees, YrotationDegrees, ZrotationDegrees, positionXYZ) ==
  MatMul(MatMul(MatMul(MatMul(glmTranslate(positionXYZ), glmRotateX(XrotationDegrees)),
                       glmRotateY(YrotationDegrees)),
                glmRotateZ(ZrotationDegrees)),
         glmScale(scaleXYZ))

\* SetTransformations: the matrix it composes from its arguments
ModelView(scaleXYZ, XrotationDegrees, YrotationDegrees, ZrotationDegrees, positionXYZ) ==
  LET scale == glmScale(scaleXYZ)
      rotationX == glmRotateX(XrotationDegrees)
      rotationY == glmRotateY(YrotationDegrees)
      rotationZ == glmRotateZ(ZrotationDegrees)
      translation == glmTranslate(positionXYZ)
  IN MatMul(MatMul(MatMul(MatMul(translation, rotationZ), rotationY), rotationX), scale)

\* SetTransformations: the matrix goes to the shader, if there is one
PushModelView(u, mgr, modelView) ==
  IF mgr # NULL THEN setValue(u, g_ModelName, modelView) ELSE u

\* SetTransformations(scaleXYZ, Xrot, Yrot, Zrot, positionXYZ)
SetTransformations(u, mgr, scaleXYZ, XrotationDegrees, YrotationDegrees, ZrotationDegrees, positionXYZ) ==
  PushModelView(u, mgr,
    ModelView(scaleXYZ, XrotationDegrees, YrotationDegrees, ZrotationDegrees, positionXYZ))

\* SetShaderColor(r, g, b, a)
SetShaderColor(u, mgr, currentColor) ==
  IF mgr # NULL
    THEN setValue(setValue(u, g_UseTextureName, BoolToInt(FALSE)),
                  g_ColorValueName, currentColor)
    ELSE u

\* a SetShaderTexture that enables texturing only for a registered tag
SetShaderTextureIfFound(u, mgr, t, textureTag) ==
  IF mgr # NULL /\ FindTextureSlot(t, textureTag) # -1
    THEN setValue(setValue(u, g_UseTextureName, BoolToInt(TRUE)),
                  g_TextureValueName, FindTextureSlot(t, textureTag))
    ELSE u

\* SetShaderTexture(textureTag)
SetShaderTexture(u, mgr, t, textureTag) ==
  IF mgr # NULL
    THEN setValue(setValue(u, g_UseTextureName, BoolToInt(TRUE)),
                  g_TextureValueName, FindTextureSlot(t, textureTag))
    ELSE u

\* SetTextureUVScale(u, v)
SetTextureUVScale(u, mgr, uv) ==
  IF mgr # NULL THEN setValue(u, "UVscale", uv) ELSE u

\* ------------------------------------------------------ material registry
\* FindMaterial's loop over m_objectMaterials[index], index from 0
RECURSIVE FindMaterialFrom(_, _, _, _)
FindMaterialFrom(mats, tag, material, index) ==
  IF index >= Len(mats) THEN material
  ELSE IF mats[index + 1].tag = tag
    THEN [diffuseColor |-> mats[index + 1].diffuseColor,
          specularColor |-> mats[index + 1].specularColor,
          shininess |-> mats[index + 1].shininess]
    ELSE FindMaterialFrom(mats, tag, material, index + 1)

\* FindMaterial(tag, material): the value returned and the out-parameter
FindMaterial(mats, tag, material) ==
  IF Len(mats) = 0
    THEN [ret |-> FALSE, material |-> material]
    ELSE [ret |-> TRUE, material |-> FindMaterialFrom(mats, tag, material, 0)]

\* what the uninitialised local OBJECT_MATERIAL of SetShaderMaterial may hold
IndeterminateMaterials ==
  { [diffuseColor |-> <<0, 0, 0>>, specularColor |-> <<0, 0, 0>>, shininess |-> 0],
    [diffuseColor |-> <<-7, 13, 999>>, specularColor |-> <<5, 5, 5>>, shininess |-> -1] }

\* SetShaderMaterial(materialTag): the outcomes, each the uniforms after the
\* call and whether the process faulted. m_pShaderManager is used unchecked:
\* through a null pointer the call is undefined (a fault, or nothing written).
SetShaderMaterial(u, mgr, mats, materialTag) ==
  IF Len(mats) > 0
    THEN UNION {
      LET found == FindMaterial(mats, materialTag, material)
      IN IF found.ret = TRUE
           THEN IF mgr # NULL
                  THEN {[uniforms |->
                           setValue(setValue(setValue(u,
                             "material.diffuseColor", found.material.diffuseColor),
                             "material.specularColor", found.material.specularColor),
                             "material.shininess", found.material.shininess),
                         crashed |-> FALSE]}
                  ELSE {[uniforms |-> u, crashed |-> TRUE],
                        [uniforms |-> u, crashed |-> FALSE]}
           ELSE {[uniforms |-> u, crashed |-> FALSE]}
      : material \in IndeterminateMaterials }
    ELSE {[uniforms |-> u, crashed |-> FALSE]}

\* ------------------------------------------------------------ the scene
\* the meshes PrepareScene asks m_basicMeshes to load
SceneMeshes ==
  { "PlaneMesh", "CylinderMesh", "ConeMesh", "TorusMesh", "BoxMesh",
    "TaperedCylinderMesh", "ExtraTorusMesh1", "ExtraTorusMesh2" }

\* RenderScene, statement by statement: a uniform written through
\* m_pShaderManager ("set"), a helper called, a mesh drawn.
RenderProgram ==
  <<
    <<"set", g_UseLightingName, BoolToInt(TRUE)>>,   \* line 415
    <<"set", "directionalLight.direction", <<-350, -1000, -250>>>>,   \* line 418
    <<"set", "directionalLight.ambient", <<200, 180, 140>>>>,   \* line 419
    <<"set", "directionalLight.diffuse", <<900, 780, 620>>>>,   \* line 420
    <<"set", "directionalLight.specular", <<900, 900, 900>>>>,   \* line 421
    <<"set", "directionalLight.bActive", 1>>,   \* line 422
    <<"set", PointLightActiveName(1), 0>>,   \* line 428
    <<"set", PointLightActiveName(2), 0>>,   \* line 428
    <<"set", PointLightActiveName(3), 0>>,   \* line 428
    <<"set", PointLightActiveName(4), 0>>,   \* line 428
    <<"set", "pointLights[0].position", <<4500, 6500, 4500>>>>,   \* line 433
    <<"set", "pointLights[0].ambient", <<100, 80, 60>>>>,   \* line 434
    <<"set", "pointLights[0].diffuse", <<850, 550, 300>>>>,   \* line 435
    <<"set", "pointLights[0].specular", <<600, 550, 500>>>>,   \* line 436
    <<"set", "pointLights[0].bActive", 1>>,   \* line 437
    <<"set", "spotLight.bActive", 0>>,   \* line 440
    <<"SetTransformations", <<20000, 1000, 15000>>, 0, 0, 0, <<0, 0, 0>>>>,   \* line 466
    <<"set", g_UseLightingName, BoolToInt(TRUE)>>,   \* line 476
    <<"set", "material.diffuseColor", <<1000, 1000, 1000>>>>,   \* line 479
    <<"set", "material.specularColor", <<800, 800, 800>>>>,   \* line 480
    <<"set", "material.shininess", 64000>>,   \* line 481
    <<"SetShaderTexture", "table">>,   \* line 485
    <<"SetTextureUVScale", <<4000, 4000>>>>,   \* line 486
    <<"Draw", "DrawPlaneMesh", <<>>>>,   \* line 489
    <<"set", g_UseLightingName, BoolToInt(TRUE)>>,   \* line 498
    <<"set", "material.diffuseColor", <<1000, 1000, 1000>>>>,   \* line 501
    <<"set", "material.specularColor", <<250, 250, 250>>>>,   \* line 502
    <<"set", "material.shininess", 16000>>,   \* line 503
    <<"SetTransformations", <<1700, 4000, 1700>>, 0, 0, 0, <<0, 0, 0>>>>,   \* line 515
    <<"SetShaderTexture", "stone">>,   \* line 523
    <<"SetTextureUVScale", <<1000, 1000>>>>,   \* line 524
    <<"Draw", "DrawCylinderMesh", <<>>>>,   \* line 527
    <<"SetTransformations", <<1000, 2000, 1700>>, 0, 0, 0, <<0, 3500, 0>>>>,   \* line 542
    <<"SetShaderTexture", "stone">>,   \* line 550
    <<"SetTextureUVScale", <<1000, 1000>>>>,   \* line 551
    <<"Draw", "DrawCylinderMesh", <<>>>>,   \* line 554
    <<"SetTransformations", <<1400, 2000, 1400>>, 180, 0, 0, <<0, 6000, 0>>>>,   \* line 570
    <<"SetShaderTexture", "stone">>,   \* line 578
    <<"SetTextureUVScale", <<1000, 800>>>>,   \* line 579
    <<"Draw", "DrawConeMesh", <<>>>>,   \* line 582
    <<"SetTransformations", <<900, 1600, 500>>, 0, 0, 90, <<1800, 4000, 0>>>>,   \* line 600
    <<"SetShaderTexture", "stone">>,   \* line 608
    <<"SetTextureUVScale", <<1200, 1200>>>>,   \* line 609
    <<"Draw", "DrawTorusMesh", <<>>>>,   \* line 612
    <<"SetTransformations", <<3000, 100, 3000>>, 0, 0, 0, <<2200, 160, 5200>>>>,   \* line 625
    <<"SetShaderTexture", "wood">>,   \* line 632
    <<"SetTextureUVScale", <<1000, 1000>>>>,   \* line 633
    <<"Draw", "DrawCylinderMesh", <<TRUE, TRUE, TRUE>>>>,   \* line 634
    <<"SetTransformations", <<3050, 3000, 3000>>, 90, 0, 0, <<2200, 160, 5200>>>>,   \* line 643
    <<"SetShaderTexture", "wood">>,   \* line 650
    <<"SetTextureUVScale", <<1000, 1000>>>>,   \* line 651
    <<"Draw", "DrawExtraTorusMesh1", <<>>>>,   \* line 652
    <<"SetTransformations", <<1150, 1050, 1150>>, 0, 0, 180, <<4200, 1100, -2200>>>>,   \* line 665
    <<"SetShaderTexture", "ceramic">>,   \* line 672
    <<"SetTextureUVScale", <<2000, 2000>>>>,   \* line 673
    <<"Draw", "DrawTaperedCylinderMesh", <<TRUE, FALSE, TRUE>>>>,   \* line 674
    <<"SetTransformations", <<960, 960, 960>>, 90, -50, 0, <<4200, 950, -2200>>>>,   \* line 683
    <<"SetShaderTexture", "ceramic">>,   \* line 690
    <<"SetTextureUVScale", <<2000, 2000>>>>,   \* line 691
    <<"Draw", "DrawExtraTorusMesh2", <<>>>>,   \* line 692
    <<"SetTransformations", <<2200, 1050, 2200>>, 0, 0, 0, <<-4200, 100, 1200>>>>,   \* line 705
    <<"SetShaderTexture", "basket">>,   \* line 712
    <<"SetTextureUVScale", <<2000, 1000>>>>,   \* line 713
    <<"Draw", "DrawCylinderMesh", <<FALSE, TRUE, TRUE>>>>,   \* line 714
    <<"SetTransformations", <<1800, 1800, 1600>>, 90, -50, 0, <<-4200, 1150, 1200>>>>,   \* line 723
    <<"SetShaderTexture", "basket">>,   \* line 730
    <<"SetTextureUVScale", <<2000, 1000>>>>,   \* line 731
    <<"Draw", "DrawExtraTorusMesh2", <<>>>>,   \* line 732
    <<"SetTransformations", <<4500, 400, 600>>, 180, -25, 25, <<-4050, 1250, 1100>>>>,   \* line 745
    <<"SetShaderTexture", "bread1">>,   \* line 752
    <<"SetTextureUVScale", <<1000, 1000>>>>,   \* line 753
    <<"Draw", "DrawBoxMesh", <<>>>>,   \* line 754
    <<"SetTransformations", <<4500, 550, 160>>, -62, 20, 25, <<-4300, 1180, 1300>>>>,   \* line 763
    <<"SetShaderTexture", "bread2">>,   \* line 770
    <<"SetTextureUVScale", <<1000, 1000>>>>,   \* line 771
    <<"Draw", "DrawBoxMesh", <<>>>>   \* line 772
  >>

\* The arguments of RenderScene's SetTransformations calls are constants of the
\* code: the matrix of the k-th statement, composed once (the zero matrix where
\* the statement is no SetTransformations).
RECURSIVE RenderModelViewsFrom(_)
RenderModelViewsFrom(k) ==
  IF k > Len(RenderProgram) THEN <<>>
  ELSE << IF RenderProgram[k][1] = "SetTransformations"
            THEN ModelView(RenderProgram[k][2], RenderProgram[k][3], RenderProgram[k][4],
                           RenderProgram[k][5], RenderProgram[k][6])
            ELSE ZeroMat >>
       \o RenderModelViewsFrom(k + 1)

RenderModelViews == RenderModelViewsFrom(1)

\* a RenderScene that leaves the material uniforms as it finds them
RenderStepKeepingMaterial(f, mgr, t, k) ==
  LET ins == RenderProgram[k]
  IN CASE ins[1] = "set" ->
         [f EXCEPT !.uniforms =
            IF mgr # NULL /\ ins[2] \notin {"material.diffuseColor", "material.specularColor",
                                            "material.shininess"}
              THEN setValue(@, ins[2], ins[3]) ELSE @]
    [] ins[1] = "SetTransformations" ->
         [f EXCEPT !.uniforms = PushModelView(@, mgr, RenderModelViews[k])]
    [] ins[1] = "SetShaderTexture" ->
         [f EXCEPT !.uniforms = SetShaderTexture(@, mgr, t, ins[2])]
    [] ins[1] = "SetTextureUVScale" ->
         [f EXCEPT !.uniforms = SetTextureUVScale(@, mgr, ins[2])]
    [] ins[1] = "Draw" ->
         [f EXCEPT !.drawLog =
            Append(@, [mesh |-> ins[2], args |-> ins[3], uniforms |-> f.uniforms])]

\* the k-th statement of RenderScene on the frame so far: the uniforms and the
\* draw calls issued, each with the uniforms it was issued under
RenderStep(f, mgr, t, k) ==
  LET ins == RenderProgram[k]
  IN CASE ins[1] = "set" ->
         [f EXCEPT !.uniforms = IF mgr # NULL THEN setValue(@, ins[2], ins[3]) ELSE @]
    [] ins[1] = "SetTransformations" ->
         [f EXCEPT !.uniforms = PushModelView(@, mgr, RenderModelViews[k])]
    [] ins[1] = "SetShaderTexture" ->
         [f EXCEPT !.uniforms = SetShaderTexture(@, mgr, t, ins[2])]
    [] ins[1] = "SetTextureUVScale" ->
         [f EXCEPT !.uniforms = SetTextureUVScale(@, mgr, ins[2])]
    [] ins[1] = "Draw" ->
         [f EXCEPT !.drawLog =
            Append(@, [mesh |-> ins[2], args |-> ins[3], uniforms |-> f.uniforms])]

\* the statements from the k-th on, in order (the frame is computed before
\* the next statement runs: f.drawLog is read at every step)
RECURSIVE RenderFrom(_, _, _, _)
RenderFrom(f, mgr, t, k) ==
  IF k > Len(RenderProgram) \/ Len(f.drawLog) > Len(RenderProgram) THEN f
  ELSE RenderFrom(RenderStep(f, mgr, t, k), mgr, t, k + 1)

\* RenderScene(): the uniforms it leaves and the draw calls it issued
RenderScene(u, mgr, t) == RenderFrom([uniforms |-> u, drawLog |-> <<>>], mgr, t, 1)

\* ------------------------------------------------------------- the calls
\* a call: the method, its arguments, what it returned, the call before it
NoCall == [op |-> "none", args |-> <<>>, ret |-> "void", after |-> "none"]
Call(op, args, ret) == [op |-> op, args |-> args, ret |-> ret, after |-> lastCall.op]

\* the texture members and OpenGL state become t
SetTex(t) ==
  /\ m_loadedTextures' = t.m_loadedTextures
  /\ m_textureIDs' = t.m_textureIDs
  /\ glGenCount' = t.glGenCount
  /\ activeTexture' = t.activeTexture
  /\ texUnit' = t.texUnit
  /\ imageBuffers' = t.imageBuffers
  /\ crashed' = t.crashed

\* SceneManager(pShaderManager): m_loadedTextures = 0, no material, no mesh
\* loaded; a fresh OpenGL context and a freshly linked shader program
EmptyTex ==
  [ m_loadedTextures |-> 0,
    m_textureIDs |-> [i \in 0..(MemSlots - 1) |-> EmptyRecord],
    glGenCount |-> 0,
    activeTexture |-> 0,
    texUnit |-> [i \in 0..(MaxTextureSlots - 1) |-> 0],
    imageBuffers |-> 0,
    crashed |-> FALSE ]

InitWith(t, mats) ==
  /\ files \in FileSystems
  /\ m_pShaderManager \in {NULL, "pShaderManager"}
  /\ m_loadedTextures = t.m_loadedTextures
  /\ m_textureIDs = t.m_textureIDs
  /\ glGenCount = t.glGenCount
  /\ activeTexture = t.activeTexture
  /\ texUnit = t.texUnit
  /\ imageBuffers = t.imageBuffers
  /\ crashed = t.crashed
  /\ m_objectMaterials = mats
  /\ m_basicMeshes = {}
  /\ glDeleted = {}
  /\ uniforms = InitialUniforms
  /\ drawLog = <<>>
  /\ lastCall = NoCall
  /\ loadedOK = {}
  /\ lastHelper = "none"
  /\ firstFrame = <<>>
  /\ frames = 0
  /\ calls = 0

Init == InitWith(EmptyTex, <<>>)

\* one more call, while the behaviour may make one
Called ==
  /\ ~crashed
  /\ calls < MaxCalls
  /\ calls' = calls + 1

CreateGLTextureCall ==
  /\ Called
  /\ m_loadedTextures < MemSlots
  /\ \E in \in LoadInputs : \E r \in CreateGLTexture(Tex, files, in[1], in[2]) :
       /\ SetTex(r.tex)
       /\ lastCall' = IF r.tex.crashed THEN Call("fault", in, "void")
                      ELSE Call("CreateGLTexture", in, r.ret)
       /\ loadedOK' = IF r.ret THEN loadedOK \cup {in[2]} ELSE loadedOK
  /\ UNCHANGED << files, m_pShaderManager, m_objectMaterials, m_basicMeshes, glDeleted,
                  uniforms, drawLog, lastHelper, firstFrame, frames >>

BindGLTexturesCall ==
  /\ Called
  /\ SetTex(BindGLTextures(Tex))
  /\ lastCall' = Call("BindGLTextures", <<>>, "void")
  /\ UNCHANGED << files, m_pShaderManager, m_objectMaterials, m_basicMeshes, glDeleted,
                  uniforms, drawLog, loadedOK, lastHelper, firstFrame, frames >>

DestroyGLTexturesCall ==
  /\ Called
  /\ \E t \in DestroyGLTextures(Tex) :
       /\ SetTex(t)
       /\ lastCall' = IF t.crashed THEN Call("fault", <<>>, "void")
                      ELSE Call("DestroyGLTextures", <<>>, "void")
  /\ UNCHANGED << files, m_pShaderManager, m_objectMaterials, m_basicMeshes, glDeleted,
                  uniforms, drawLog, loadedOK, lastHelper, firstFrame, frames >>

PrepareSceneCall ==
  /\ Called
  /\ m_loadedTextures + Len(SceneTextures) <= MemSlots
  /\ m_basicMeshes' = m_basicMeshes \cup SceneMeshes
  /\ \E r \in PrepareFrom(Tex, files, 1, {}) :
       /\ SetTex(r.tex)
       /\ lastCall' = IF r.tex.crashed THEN Call("fault", <<>>, "void")
                      ELSE Call("PrepareScene", <<>>, "void")
       /\ loadedOK' = loadedOK \cup r.ok
  /\ UNCHANGED << files, m_pShaderManager, m_objectMaterials, glDeleted,
                  uniforms, drawLog, lastHelper, firstFrame, frames >>

RenderSceneCall ==
  /\ Called
  /\ LET f == RenderScene(uniforms, m_pShaderManager, Tex)
     IN /\ uniforms' = f.uniforms
        /\ drawLog' = f.drawLog
  /\ lastCall' = Call("RenderScene", <<>>, "void")
  /\ lastHelper' = "SetShaderTexture"
  /\ UNCHANGED << files, m_pShaderManager, m_objectMaterials, m_basicMeshes, glDeleted,
                  texVars, loadedOK, firstFrame, frames >>

Next ==
  \/ CreateGLTextureCall
  \/ BindGLTexturesCall
  \/ DestroyGLTexturesCall
  \/ PrepareSceneCall
  \/ RenderSceneCall

Spec == Init /\ [][Next]_vars

\* ------------------------------------------------- the helpers, called
\* colours, UV scales and tags the helper calls are made with
Colors == { <<1000, 0, 0, 1000>>, <<200, 400, 600, 500>> }
UVScales == { <<1000, 1000>>, <<4000, 2000>> }
HelperTags == {"wood", "basket", "never"}

SetShaderColorCall ==
  /\ Called
  /\ \E c \in Colors :
       /\ uniforms' = SetShaderColor(uniforms, m_pShaderManager, c)
       /\ lastCall' = Call("SetShaderColor", c, "void")
  /\ lastHelper' = "SetShaderColor"
  /\ UNCHANGED << files, m_pShaderManager, m_objectMaterials, m_basicMeshes, glDeleted,
                  texVars, drawLog, loadedOK, firstFrame, frames >>

SetShaderTextureCall ==
  /\ Called
  /\ \E tag \in HelperTags :
       /\ uniforms' = SetShaderTexture(uniforms, m_pShaderManager, Tex, tag)
       /\ lastCall' = Call("SetShaderTexture", <<tag>>, "void")
  /\ lastHelper' = "SetShaderTexture"
  /\ UNCHANGED << files, m_pShaderManager, m_objectMaterials, m_basicMeshes, glDeleted,
                  texVars, drawLog, loadedOK, firstFrame, frames >>

SetTextureUVScaleCall ==
  /\ Called
  /\ \E uv \in UVScales :
       /\ uniforms' = SetTextureUVScale(uniforms, m_pShaderManager, uv)
       /\ lastCall' = Call("SetTextureUVScale", uv, "void")
  /\ UNCHANGED << files, m_pShaderManager, m_objectMaterials, m_basicMeshes, glDeleted,
                  texVars, drawLog, loadedOK, lastHelper, firstFrame, frames >>

\* a draw call issued on its own: m_basicMeshes->DrawBoxMesh() under the
\* uniforms as they are
DrawCall ==
  /\ Called
  /\ drawLog' = << [mesh |-> "DrawBoxMesh", args |-> <<>>, uniforms |-> uniforms] >>
  /\ lastCall' = Call("DrawBoxMesh", <<>>, "void")
  /\ UNCHANGED << files, m_pShaderManager, m_objectMaterials, m_basicMeshes, glDeleted,
                  texVars, uniforms, loadedOK, lastHelper, firstFrame, frames >>

\* PrepareScene, where it runs once
PrepareSceneOnce == m_basicMeshes = {} /\ PrepareSceneCall

NextShader ==
  \/ PrepareSceneOnce
  \/ SetShaderColorCall
  \/ SetShaderTextureCall
  \/ SetTextureUVScaleCall
  \/ DrawCall

SpecShader == Init /\ [][NextShader]_vars

\* ------------------------------------------------ the transform composer
\* arguments of the SetTransformations calls: angles that are multiples of 90
ComposeScales == { <<2000, 1000, 1000>>, <<2000, 3000, 4000>> }
ComposeAngles == {0, 90, 180}
ComposePositions == { <<0, 0, 0>>, <<1000, 2000, 3000>> }

SetTransformationsCall ==
  /\ ~crashed
  /\ calls < MaxComposeCalls
  /\ calls' = calls + 1
  /\ \E sc \in ComposeScales, rx \in ComposeAngles, ry \in ComposeAngles,
        rz \in ComposeAngles, pos \in ComposePositions :
       /\ uniforms' = SetTransformations(uniforms, m_pShaderManager, sc, rx, ry, rz, pos)
       /\ lastCall' = Call("SetTransformations", <<sc, rx, ry, rz, pos>>, "void")
  /\ UNCHANGED << files, m_pShaderManager, m_objectMaterials, m_basicMeshes, glDeleted,
                  texVars, drawLog, loadedOK, lastHelper, firstFrame, frames >>

NextCompose == SetTransformationsCall

SpecCompose == Init /\ [][NextCompose]_vars

\* --------------------------------------------------- the material calls
\* the records the material registries are made of: a tag twice, with
\* different values, and another tag
MaterialPool ==
  { [tag |-> "gold", diffuseColor |-> <<200, 200, 100>>,
     specularColor |-> <<600, 500, 400>>, shininess |-> 22000],
    [tag |-> "gold", diffuseColor |-> <<300, 300, 200>>,
     specularColor |-> <<100, 100, 100>>, shininess |-> 1000],
    [tag |-> "clay", diffuseColor |-> <<400, 300, 100>>,
     specularColor |-> <<200, 200, 200>>, shininess |-> 500] }
MaterialTags == {"gold", "clay", "glass"}

\* the material registries a scene may have defined: up to MaxMaterials records
MaterialRegistries ==
  UNION { [1..n -> MaterialPool] : n \in 0..MaxMaterials }

InitMaterial == \E mats \in MaterialRegistries : InitWith(EmptyTex, mats)

FindMaterialCall ==
  /\ Called
  /\ \E tag \in MaterialTags, material \in IndeterminateMaterials :
       lastCall' = Call("FindMaterial", <<tag, material>>,
                        FindMaterial(m_objectMaterials, tag, material))
  /\ UNCHANGED << files, m_pShaderManager, m_objectMaterials, m_basicMeshes, glDeleted,
                  texVars, uniforms, drawLog, loadedOK, lastHelper, firstFrame, frames >>

SetShaderMaterialCall ==
  /\ Called
  /\ \E tag \in MaterialTags :
     \E r \in SetShaderMaterial(uniforms, m_pShaderManager, m_objectMaterials, tag) :
       /\ uniforms' = r.uniforms
       /\ crashed' = r.crashed
       /\ lastCall' = IF r.crashed THEN Call("fault", <<tag>>, "void")
                      ELSE Call("SetShaderMaterial", <<tag>>, "void")
  /\ UNCHANGED << files, m_pShaderManager, m_objectMaterials, m_basicMeshes, glDeleted,
                  m_loadedTextures, m_textureIDs, glGenCount, activeTexture, texUnit,
                  imageBuffers, drawLog, loadedOK, lastHelper, firstFrame, frames >>

NextMaterial ==
  \/ FindMaterialCall
  \/ SetShaderMaterialCall

SpecMaterial == InitMaterial /\ [][NextMaterial]_vars

\* ------------------------------------------------------ the scene, drawn
\* RenderScene once the scene is prepared, the frames counted and the first kept
RenderSceneFrame ==
  /\ m_basicMeshes # {}
  /\ RenderSceneCall!1
  /\ LET f == RenderScene(uniforms, m_pShaderManager, Tex)
     IN /\ uniforms' = f.uniforms
        /\ drawLog' = f.drawLog
        /\ firstFrame' = IF frames = 0 THEN f.drawLog ELSE firstFrame
  /\ frames' = IF frames < MaxRenders THEN frames + 1 ELSE frames
  /\ lastCall' = Call("RenderScene", <<>>, "void")
  /\ lastHelper' = "SetShaderTexture"
  /\ UNCHANGED << files, m_pShaderManager, m_objectMaterials, m_basicMeshes, glDeleted,
                  texVars, loadedOK >>

NextScene ==
  \/ PrepareSceneOnce
  \/ RenderSceneFrame
  \/ SetShaderColorCall
  \/ SetShaderTextureCall
  \/ SetTextureUVScaleCall
  \/ SetShaderMaterialCall

\* the material registries of the scenes drawn: none defined, or one
SceneRegistries == { mats \in MaterialRegistries : Len(mats) <= 1 }

InitScene == \E mats \in SceneRegistries : InitWith(EmptyTex, mats)

SpecScene == InitScene /\ [][NextScene]_vars

\* ------------------------------------------------- the texture registry
\* some record below m_loadedTextures carries the tag
HasRecord(tag) == \E i \in 0..(m_loadedTextures - 1) : m_textureIDs[i].tag = tag

\* the lowest index of a record that carries the tag
LowestIndex(tag) ==
  CHOOSE i \in 0..(m_loadedTextures - 1) :
    /\ m_textureIDs[i].tag = tag
    /\ \A j \in 0..(i - 1) : m_textureIDs[j].tag # tag

\* the process has not faulted: there is a scene manager to ask
Alive == ~crashed

\* the last step was a call of op that returned
Returned(op) == Alive /\ lastCall.op = op

\* C1: every tag a CreateGLTexture call returned true for is found:
\* FindTextureID gives the handle of the lowest-index record with that tag,
\* which is not -1, and FindTextureSlot gives that index.
C1_LoadedTagIsFound ==
  Alive => \A tag \in loadedOK :
    /\ HasRecord(tag)
    /\ FindTextureID(Tex, tag) # -1
    /\ FindTextureID(Tex, tag) = m_textureIDs[LowestIndex(tag)].ID
    /\ FindTextureSlot(Tex, tag) = LowestIndex(tag)

\* C2: a CreateGLTexture call on a file that does not decode to 3 or 4
\* channels returns false and leaves m_loadedTextures and every record as
\* they were.
C2_FailedLoadKeepsRegistry ==
  [][ (/\ calls' = calls + 1
       /\ lastCall'.op = "CreateGLTexture"
       /\ (files[lastCall'.args[1]] \notin {3, 4} \/ lastCall'.ret = FALSE))
      => /\ lastCall'.ret = FALSE
         /\ files[lastCall'.args[1]] \notin {3, 4}
         /\ m_loadedTextures' = m_loadedTextures
         /\ m_textureIDs' = m_textureIDs ]_vars

\* C2's case: a load of the one-channel image has failed on a registry that
\* holds records
C2_Witness ==
  /\ Returned("CreateGLTexture")
  /\ lastCall.args = <<"textures/gray.png", "gray">>
  /\ lastCall.ret = FALSE
  /\ m_loadedTextures > 0
  /\ glGenCount > m_loadedTextures

\* C3: a tag no CreateGLTexture call returned true for is not found, by
\* FindTextureSlot or by FindTextureID.
C3_UnloadedTagNotFound ==
  Alive => \A tag \in Tags \ loadedOK :
    /\ FindTextureSlot(Tex, tag) = -1
    /\ FindTextureID(Tex, tag) = -1

\* C4: when BindGLTextures has run (on its own or at the end of PrepareScene),
\* every index below m_loadedTextures is a texture unit, and that unit is
\* bound to the handle of the record at that index.
C4_UnitIsSlot ==
  (Returned("BindGLTextures") \/ Returned("PrepareScene")) =>
    \A i \in 0..(m_loadedTextures - 1) :
      /\ i \in DOMAIN texUnit
      /\ texUnit[i] = m_textureIDs[i].ID

\* ------------------------------------------------------ the transforms
\* a point scaled, turned about one axis, moved: computed coordinate by
\* coordinate, without matrices
ScalePoint(v, p) == << FMul(v[1], p[1]), FMul(v[2], p[2]), FMul(v[3], p[3]) >>
TurnX(d, p) ==
  << p[1], FMul(Cos(d), p[2]) - FMul(Sin(d), p[3]), FMul(Sin(d), p[2]) + FMul(Cos(d), p[3]) >>
TurnY(d, p) ==
  << FMul(Cos(d), p[1]) + FMul(Sin(d), p[3]), p[2], FMul(Cos(d), p[3]) - FMul(Sin(d), p[1]) >>
TurnZ(d, p) ==
  << FMul(Cos(d), p[1]) - FMul(Sin(d), p[2]), FMul(Sin(d), p[1]) + FMul(Cos(d), p[2]), p[3] >>
MovePoint(v, p) == << p[1] + v[1], p[2] + v[2], p[3] + v[3] >>

\* the origin and the three unit points: an affine map is fixed by them
ProbePoints == { <<0, 0, 0>>, <<Unit, 0, 0>>, <<0, Unit, 0>>, <<0, 0, Unit>> }

\* the matrix in the model slot is Translation x RotationZ x RotationY x
\* RotationX x Scale of the last call's arguments
ComposedInOrder ==
  LET a == lastCall.args
      m == uniforms[g_ModelName]
  IN /\ m[4] = <<0, 0, 0, Unit>>
     /\ \A p \in ProbePoints :
          MatApply(m, p) = MovePoint(a[5], TurnZ(a[4], TurnY(a[3], TurnX(a[2], ScalePoint(a[1], p)))))
     /\ a = << <<2000, 1000, 1000>>, 0, 0, 90, <<0, 0, 0>> >> =>
          /\ MatApply(m, <<0, 0, 0>>) = <<0, 0, 0>>
          /\ MatApply(m, <<Unit, 0, 0>>) = <<0, 2000, 0>>

\* C5, as stated: after every SetTransformations call the model slot holds
\* the product Translation x RotationZ x RotationY x RotationX x Scale of the
\* arguments; scale (2,1,1) turned 90 degrees about Z takes (0,0,0) to (0,0,0)
\* and (1,0,0) to (0,2,0).
C5_PushesProduct == Returned("SetTransformations") => ComposedInOrder

\* C5, amended: the same, for a scene manager that has a shader manager
\* (without one SetTransformations writes nothing).
C5_PushesProductToShader ==
  (Returned("SetTransformations") /\ m_pShaderManager # NULL) => ComposedInOrder

\* C5's case: scale (2,3,4) was turned about all three axes and moved
C5_Witness ==
  /\ Returned("SetTransformations")
  /\ m_pShaderManager # NULL
  /\ lastCall.args = << <<2000, 3000, 4000>>, 90, 180, 90, <<1000, 2000, 3000>> >>
  /\ uniforms[g_ModelName] # ZeroMat

\* ------------------------------------------------ the texture-enabled flag
\* the flag this draw call was issued under
FlagAtDraw == drawLog[1].uniforms[g_UseTextureName]

\* draws straight after a helper see its flag, and the flag is the last helper's
FlagFollowsHelper ==
  /\ (Returned("DrawBoxMesh") /\ lastCall.after = "SetShaderColor") =>
       FlagAtDraw = BoolToInt(FALSE)
  /\ (Returned("DrawBoxMesh") /\ lastCall.after = "SetShaderTexture") =>
       FlagAtDraw = BoolToInt(TRUE)
  /\ (Alive /\ lastHelper = "SetShaderColor") =>
       uniforms[g_UseTextureName] = BoolToInt(FALSE)
  /\ (Alive /\ lastHelper = "SetShaderTexture") =>
       uniforms[g_UseTextureName] = BoolToInt(TRUE)

\* C6, as stated: a draw issued straight after SetShaderColor sees bUseTexture
\* false, one issued straight after SetShaderTexture (any tag) sees it true,
\* and the flag always has the value of whichever of the two ran last.
C6_FlagFollowsHelper == FlagFollowsHelper

\* C6, amended: the same, for a scene manager that has a shader manager
\* (without one neither helper writes the flag).
C6_FlagFollowsHelperOfShader == m_pShaderManager # NULL => FlagFollowsHelper

\* C6's case: a draw straight after SetShaderColor, which came after a
\* SetShaderTexture of a tag that is not registered
C6_Witness ==
  /\ Returned("DrawBoxMesh")
  /\ lastCall.after = "SetShaderColor"
  /\ m_pShaderManager # NULL
  /\ FlagAtDraw = 0
  /\ uniforms[g_TextureValueName] = -1

\* -------------------------------------------------------------- the frame
\* the meshes of a frame, in the order drawn
FrameMeshes ==
  << "DrawPlaneMesh", "DrawCylinderMesh", "DrawCylinderMesh", "DrawConeMesh",
     "DrawTorusMesh", "DrawCylinderMesh", "DrawExtraTorusMesh1",
     "DrawTaperedCylinderMesh", "DrawExtraTorusMesh2", "DrawCylinderMesh",
     "DrawExtraTorusMesh2", "DrawBoxMesh", "DrawBoxMesh" >>

\* the shader state of a draw: every uniform but the flat colour
SeenAtDraw(d) ==
  [mesh |-> d.mesh, args |-> d.args,
   uniforms |-> [n \in UniformNames \ {g_ColorValueName} |-> d.uniforms[n]]]

\* C7: once PrepareScene has run, every RenderScene call returns having
\* issued the same 13 draw calls in the same order, each under the shader
\* state (model matrix, texture flag and unit, UV scale, material, lights)
\* the first frame had at that draw.
C7_FramesAlike ==
  (lastCall.op = "RenderScene" /\ frames > 0) =>
    /\ Alive
    /\ Len(drawLog) = 13
    /\ \A k \in 1..13 :
         /\ drawLog[k].mesh = FrameMeshes[k]
         /\ SeenAtDraw(drawLog[k]) = SeenAtDraw(firstFrame[k])

\* C7's case: with no material defined, a second frame was drawn after
\* SetShaderColor had switched texturing off and pushed a colour
C7_Witness ==
  /\ Returned("RenderScene")
  /\ frames = 2
  /\ lastCall.after = "SetShaderColor"
  /\ m_pShaderManager # NULL
  /\ m_objectMaterials = <<>>
  /\ uniforms[g_ColorValueName] # <<0, 0, 0, 0>>
  /\ drawLog[1].uniforms[g_UseTextureName] = 1

\* ---------------------------------------------------- the material lookup
\* some record of the registry carries the tag
HasMaterial(tag) == \E i \in 1..Len(m_objectMaterials) : m_objectMaterials[i].tag = tag

\* the first record that carries the tag
FirstMaterial(tag) ==
  m_objectMaterials[CHOOSE i \in 1..Len(m_objectMaterials) :
                      /\ m_objectMaterials[i].tag = tag
                      /\ \A j \in 1..(i - 1) : m_objectMaterials[j].tag # tag]

\* C8: FindMaterial returns true exactly when some record carries the tag,
\* then with the first such record's values in the out-parameter; it returns
\* false when none does, the empty registry included.
C8_LookupIsTruthful ==
  Returned("FindMaterial") =>
    LET tag == lastCall.args[1]
        out == lastCall.ret.material
    IN /\ lastCall.ret.ret = HasMaterial(tag)
       /\ HasMaterial(tag) =>
            /\ out.diffuseColor = FirstMaterial(tag).diffuseColor
            /\ out.specularColor = FirstMaterial(tag).specularColor
            /\ out.shininess = FirstMaterial(tag).shininess

\* C9: the registry never holds more than 16 records.
C9_WithinCapacity == Alive => m_loadedTextures <= MaxTextureSlots

\* C10: a DestroyGLTextures call deletes the handle of every record and
\* generates no texture name.
C10_TeardownReleases ==
  [][ (calls' = calls + 1 /\ lastCall'.op = "DestroyGLTextures")
      => /\ \A i \in 0..(m_loadedTextures - 1) : m_textureIDs[i].ID \in glDeleted'
         /\ glGenCount' = glGenCount ]_vars

\* ------------------------------------------------- what a load leaves behind
\* C11: a CreateGLTexture call that returns has freed the pixel buffer it
\* decoded, on every exit path, and when it returns false every texture name
\* it generated has been deleted: nothing it acquired and did not register
\* stays allocated.
C11_LoadReleasesWhatItAcquired ==
  [][ (calls' = calls + 1 /\ lastCall'.op = "CreateGLTexture")
      => /\ imageBuffers' = imageBuffers
         /\ lastCall'.ret = FALSE =>
              \A id \in (glGenCount + 1)..glGenCount' : id \in glDeleted' ]_vars

\* ------------------------------------------------- the material, pushed
\* the three material slots of the shader
MaterialSlots(u) ==
  << u["material.diffuseColor"], u["material.specularColor"], u["material.shininess"] >>

\* C12: a SetShaderMaterial(tag) call on a scene manager with a shader pushes
\* the first record tagged tag, if the registry has one, and otherwise (empty
\* registry, or no record with the tag) leaves the three material slots as
\* they were.
C12_PushesOnlyOnMatch ==
  [][ (/\ calls' = calls + 1
       /\ lastCall'.op = "SetShaderMaterial"
       /\ m_pShaderManager # NULL)
      => LET tag == lastCall'.args[1]
         IN IF HasMaterial(tag)
              THEN MaterialSlots(uniforms') =
                     << FirstMaterial(tag).diffuseColor, FirstMaterial(tag).specularColor,
                        FirstMaterial(tag).shininess >>
              ELSE MaterialSlots(uniforms') = MaterialSlots(uniforms) ]_vars

\* ------------------------------------------------- the bindings, kept
\* the registry fits the array, holds a record, and unit i is bound to the
\* handle of record i for every record: what BindGLTextures establishes
BoundInOrder ==
  /\ m_loadedTextures > 0
  /\ m_loadedTextures <= MaxTextureSlots
  /\ \A i \in 0..(m_loadedTextures - 1) : texUnit[i] = m_textureIDs[i].ID

\* C13: once every unit i is bound to record i's handle, a CreateGLTexture
\* call, whatever it returns, leaves each of those units bound to the same
\* handle.
C13_LoadKeepsBindings ==
  [][ (/\ calls' = calls + 1
       /\ lastCall'.op = "CreateGLTexture"
       /\ BoundInOrder)
      => \A i \in 0..(m_loadedTextures - 1) :
           /\ texUnit'[i] = texUnit[i]
           /\ texUnit'[i] = m_textureIDs'[i].ID ]_vars
====
